---- MODULE Spec2Model ----
(***************************************************************************)
(* A model of the e2e-wdio-cucumber suite: the page objects (HomePage,     *)
(* CartPage, CheckoutPage), the step definitions, ApiUtils and DbUtils,    *)
(* run by a Cucumber scenario runner against a browser, an HTTP server and *)
(* a SQLite file whose behaviour is left nondeterministic.                 *)
(*                                                                         *)
(* Every function of the suite is a small program (a list of the awaited   *)
(* calls of its body, and what its catch block does); the programs run on  *)
(* a call stack, one awaited call per step, and the application under test *)
(* moves between the steps.                                                *)
(***************************************************************************)
EXTENDS Integers, Sequences, FiniteSets, TLC

\* ------------------------------------------------------------------ bounds

\* Largest quantity of one item the cart of the application holds.
MaxQty == 2
\* Largest {int} argument of the step 'I add {int} items to the cart'.
MaxCount == 2
\* Largest number of violations an accessibility scan reports.
MaxViolations == 1

\* ------------------------------------------------------------- JS numbers

\* A JavaScript number m / 10^k (k minimal), or NaN.
Num(m, k) == <<"num", m, k>>
JsInt(n) == <<"num", n, 0>>
NaN == <<"nan", 0, 0>>

RECURSIVE Normalise(_, _)
Normalise(m, k) ==
    IF k > 0 /\ m % 10 = 0 THEN Normalise(m \div 10, k - 1) ELSE Num(m, k)

IsInteger(x) == x[1] = "num" /\ x[3] = 0

\* a !== b of JavaScript: NaN differs from everything, NaN included.
StrictNotEqual(a, b) == a[1] = "nan" \/ b[1] = "nan" \/ a # b
StrictEqual(a, b) == ~StrictNotEqual(a, b)

\* ------------------------------------------------------------------- text

\* A text is a sequence of one-character strings.
DigitChars == {"0", "1", "2", "3", "4", "5", "6", "7", "8", "9"}

DigitVal(c) ==
    CASE c = "0" -> 0 [] c = "1" -> 1 [] c = "2" -> 2 [] c = "3" -> 3
      [] c = "4" -> 4 [] c = "5" -> 5 [] c = "6" -> 6 [] c = "7" -> 7
      [] c = "8" -> 8 [] c = "9" -> 9

DigitChar(d) == <<"0", "1", "2", "3", "4", "5", "6", "7", "8", "9">>[d + 1]

RECURSIVE TrimLeft(_)
TrimLeft(s) == IF s # <<>> /\ Head(s) = " " THEN TrimLeft(Tail(s)) ELSE s

RECURSIVE TrimRight(_)
TrimRight(s) ==
    IF s # <<>> /\ s[Len(s)] = " " THEN TrimRight(SubSeq(s, 1, Len(s) - 1)) ELSE s

\* String.prototype.trim
Trim(s) == TrimRight(TrimLeft(s))

\* The longest prefix of s made of characters of the class cls.
RECURSIVE TakeWhile(_, _)
TakeWhile(s, cls) ==
    IF s # <<>> /\ Head(s) \in cls
    THEN <<Head(s)>> \o TakeWhile(Tail(s), cls)
    ELSE <<>>

RECURSIVE DropUntil(_, _)
DropUntil(s, cls) ==
    IF s # <<>> /\ Head(s) \notin cls THEN DropUntil(Tail(s), cls) ELSE s

RECURSIVE DigitsValue(_)
DigitsValue(ds) ==
    IF ds = <<>> THEN 0
    ELSE 10 * DigitsValue(SubSeq(ds, 1, Len(ds) - 1)) + DigitVal(ds[Len(ds)])

RECURSIVE Pow10(_)
Pow10(k) == IF k = 0 THEN 1 ELSE 10 * Pow10(k - 1)

\* parseInt(s, 10): leading white space, an optional sign, then the longest
\* run of digits; NaN when there is no digit.
ParseInt(s) ==
    LET t == TrimLeft(s)
        neg == t # <<>> /\ Head(t) = "-"
        u == IF t # <<>> /\ Head(t) \in {"-", "+"} THEN Tail(t) ELSE t
        ds == TakeWhile(u, DigitChars)
    IN  IF ds = <<>> THEN NaN
        ELSE JsInt(IF neg THEN 0 - DigitsValue(ds) ELSE DigitsValue(ds))

\* text.match(/[\d.]+/): the first longest run of digits and dots, or
\* <<>> for null (a match is never empty).
RegexNumberMatch(s) == TakeWhile(DropUntil(s, DigitChars \cup {"."}), DigitChars \cup {"."})

\* parseFloat of a run of digits and dots: digits, then at most one dot and
\* digits; NaN when neither part has a digit.
ParseFloat(s) ==
    LET ip == TakeWhile(s, DigitChars)
        rest == SubSeq(s, Len(ip) + 1, Len(s))
        fp == IF rest # <<>> /\ Head(rest) = "."
              THEN TakeWhile(Tail(rest), DigitChars) ELSE <<>>
    IN  IF ip = <<>> /\ fp = <<>> THEN NaN
        ELSE Normalise(DigitsValue(ip) * Pow10(Len(fp)) + DigitsValue(fp), Len(fp))

\* text contains sub (XPath contains(), String.prototype.includes).
Contains(text, sub) ==
    \E i \in 0..(Len(text) - Len(sub)) : SubSeq(text, i + 1, i + Len(sub)) = sub

\* The decimal digits of a natural number.
RECURSIVE IntText(_)
IntText(n) == IF n < 10 THEN <<DigitChar(n)>> ELSE IntText(n \div 10) \o <<DigitChar(n % 10)>>

\* ------------------------------------------------ the application's data

\* The items of the shop, and the names their cards and cart rows show.
Items == {1, 2}
Koala == <<"K", "o", "a", "l", "a">>
Dog == <<"D", "o", "g">>
Cat == <<"C", "a", "t">>
ItemName(i) == IF i = 1 THEN Koala ELSE Dog
\* Unit prices, in cents.
ItemPrice(i) == IF i = 1 THEN 1099 ELSE 2550

EmptyCart == [i \in Items |-> 0]

\* The HTTP statuses the server is taken to answer with.
StatusCodes == {199, 200, 204, 299, 300, 302, 399, 400, 404, 500}

\* The polling interval of every wait (WebdriverIO's waitforInterval).
WaitforInterval == 500

\* ------------------------------------------------------------ the programs

\* The awaited calls a function body is made of.
Url(path) == [k |-> "url", a |-> path]
WaitForDisplayed(sel, timeout) ==
    [k |-> "wait", cond |-> "displayed", sel |-> sel, t |-> timeout]
WaitForHidden(sel, timeout) ==
    [k |-> "wait", cond |-> "hidden", sel |-> sel, t |-> timeout]
WaitForClickable(sel, timeout) ==
    [k |-> "wait", cond |-> "clickable", sel |-> sel, t |-> timeout]
WaitUntilUrlIncludes(part, timeout) ==
    [k |-> "wait", cond |-> "url", sel |-> part, t |-> timeout]
WaitUntilUrlExcludes(part, timeout) ==
    [k |-> "wait", cond |-> "notUrl", sel |-> part, t |-> timeout]
WaitUntilCall(op, timeout) == [k |-> "waitUntil", a |-> op, t |-> timeout]
Click(sel) == [k |-> "click", sel |-> sel]
GetText(sel) == [k |-> "getText", sel |-> sel]
SelectByVisibleText == [k |-> "select"]
Elements == [k |-> "elements"]
\* await op(arg), the result kept in the local named by store.
Call(op, arg, store) ==
    [k |-> "call", a |-> op, arg |-> arg, store |-> store, pass |-> FALSE]
\* await op(x) with x the caller's own argument.
CallWithArg(op, store) ==
    [k |-> "call", a |-> op, arg |-> 0, store |-> store, pass |-> TRUE]
\* await op(x) with x the part-th argument of the caller.
CallWithArgPart(op, part, store) ==
    [k |-> "call", a |-> op, arg |-> 0, store |-> store, pass |-> TRUE,
     part |-> part]
ForCount(exit) == [k |-> "for", a |-> exit]
EndFor(back) == [k |-> "endfor", a |-> back]
ExpectToBe == [k |-> "expect"]
ExpectToBeZero == [k |-> "expect", literal |-> 0]
\* if (actual !== expected) throw, expected the part-th argument (0: the
\* only one); if (items.length > 0) throw.
ThrowIfDiffers(part) == [k |-> "throwIf", cond |-> "differs", part |-> part]
ThrowIfNotEmpty == [k |-> "throwIf", cond |-> "notEmpty", part |-> 0]
CheckClient == [k |-> "checkClient"]
Post(path) == [k |-> "post", a |-> path]
CheckStatus == [k |-> "checkStatus"]
GetConnection == [k |-> "getConnection"]
DbQuery == [k |-> "query"]
DbClose == [k |-> "close"]
SettlePromise == [k |-> "settle"]
Execute == [k |-> "execute"]
AddAttachment == [k |-> "report", a |-> "attachment", next |-> 3]
IfViolations(else) == [k |-> "if", a |-> else]
AddArgument(next) == [k |-> "report", a |-> "argument", next |-> next]

\* A function: the awaited calls of its body, in order; what it returns
\* after the last one ("undefined", or how the value is computed from its
\* local); and what it does with an error thrown in its body: it has no
\* catch ("none"), wraps and rethrows ("rethrow"), logs and returns
\* ("swallow"), or returns a sentinel value ("sentinel").
Fn(catch, sentinel, body, result) ==
    [catch |-> catch, sentinel |-> sentinel, body |-> body, result |-> result]

Undefined == <<"undefined", 0, 0>>

\* Page.waitForElement(selector, timeout)
Page_waitForElement(sel, timeout) == WaitForDisplayed(sel, timeout)

HomePage_open ==
    Fn("none", Undefined,
       << Url("home"), Page_waitForElement("ul > li", 10000) >>, "undefined")

\* C16, changed: the link is clicked a second time.
HomePage_goToCart_clicksAgain ==
    Fn("none", Undefined,
       << WaitForClickable("#cart-link", 5000),
          Click("#cart-link"),
          Click("#cart-link"),
          WaitUntilUrlIncludes("cart", 5000) >>, "undefined")

HomePage_goToCart ==
    Fn("none", Undefined,
       << WaitForClickable("#cart-link", 5000),
          Click("#cart-link"),
          WaitUntilUrlIncludes("cart", 5000) >>, "undefined")

HomePage_getCartCount ==
    Fn("sentinel", JsInt(0),
       << GetText("#cart-link span") >>, "parseInt")

HomePage_assertCartCount ==
    Fn("none", Undefined,
       << Call("HomePage_getCartCount", Undefined, "v"), ThrowIfDiffers(0) >>,
       "undefined")

\* C11, changed: the button is clicked without waiting for it.
HomePage_addToCartByItemId_noWait ==
    Fn("rethrow", Undefined, << Click("addToCartButton") >>, "undefined")

HomePage_addToCartByItemId ==
    Fn("rethrow", Undefined,
       << WaitForDisplayed("addToCartButton", 5000), Click("addToCartButton") >>, "undefined")

HomePage_addFirstProductToCart ==
    Fn("none", Undefined, << Call("HomePage_addToCartByItemId", 1, "none") >>, "undefined")

HomePage_assertSuccessNotificationVisible ==
    Fn("rethrow", Undefined,
       << WaitForDisplayed(".notification", 5000), GetText(".notification") >>, "undefined")

HomePage_assertSuccessNotificationHidden ==
    Fn("swallow", Undefined, << WaitForHidden(".notification", 5000) >>, "undefined")

CartPage_open ==
    Fn("none", Undefined,
       << Url("cart"), Page_waitForElement("table", 10000) >>, "undefined")

CartPage_waitForCartPageLoad ==
    Fn("swallow", Undefined, << WaitForDisplayed("table", 10000) >>, "undefined")

CartPage_getCartItems ==
    Fn("sentinel", JsInt(0), << Elements >>, "value")

\* C6, changed: the catch block returns 0.
CartPage_getProductQuantity_zero ==
    Fn("sentinel", JsInt(0),
       << GetText("option:checked") >>, "parseInt")

CartPage_getProductQuantity ==
    Fn("sentinel", JsInt(-1),
       << GetText("option:checked") >>, "parseInt")

CartPage_assertProductQuantity ==
    Fn("none", Undefined,
       << CallWithArgPart("CartPage_getProductQuantity", 1, "v"),
          ThrowIfDiffers(2) >>, "undefined")

CartPage_assertCartEmpty ==
    Fn("none", Undefined,
       << Call("CartPage_getCartItems", Undefined, "v"), ThrowIfNotEmpty >>,
       "undefined")

CartPage_clickCheckout ==
    Fn("rethrow", Undefined,
       << WaitForClickable("#checkout-button", 5000), Click("#checkout-button"),
          WaitUntilUrlIncludes("checkout", 5000) >>, "undefined")

CartPage_clickBackToShop ==
    Fn("rethrow", Undefined,
       << WaitForClickable("#shop-link", 5000), Click("#shop-link"),
          WaitUntilUrlExcludes("cart", 5000) >>, "undefined")

\* C5, changed: the catch block rethrows instead of returning -1.
CartPage_getTotalPrice_rethrows ==
    Fn("rethrow", JsInt(-1),
       << WaitForDisplayed("h2", 5000), GetText("h2") >>, "price")

CartPage_getTotalPrice ==
    Fn("sentinel", JsInt(-1),
       << WaitForDisplayed("h2", 5000), GetText("h2") >>, "price")

\* C23, changed: the catch block does not rethrow.
CartPage_setProductQuantity_swallows ==
    Fn("swallow", Undefined,
       << Call("CartPage_getTotalPrice", Undefined, "old"),
          SelectByVisibleText,
          WaitUntilCall("CartPage_getTotalPrice", 5000) >>, "undefined")

CartPage_setProductQuantity ==
    Fn("rethrow", Undefined,
       << Call("CartPage_getTotalPrice", Undefined, "old"),
          SelectByVisibleText,
          WaitUntilCall("CartPage_getTotalPrice", 5000) >>, "undefined")

CheckoutPage_waitForCheckoutPageLoad ==
    Fn("swallow", Undefined, << WaitForDisplayed(".checkout-container", 10000) >>, "undefined")

CheckoutPage_open ==
    Fn("none", Undefined,
       << Url("checkout"),
          Call("CheckoutPage_waitForCheckoutPageLoad", Undefined, "none") >>, "undefined")

\* C7, changed: only a status below 200 is rejected.
StatusRejected_belowOnly(status) == status < 200

\* C14, changed: only a status of 300 or more is rejected.
StatusRejected_aboveOnly(status) == status >= 300

\* response.status < 200 || response.status >= 300
StatusRejected(status) == status < 200 \/ status >= 300

\* ApiUtils.isSuccessStatus(statusCode)
ApiUtils_isSuccessStatus(statusCode) == statusCode >= 200 /\ statusCode < 400

ApiUtils_resetCart ==
    Fn("none", Undefined,
       << CheckClient, Post("/reset-cart"), CheckStatus >>, "value")

ApiUtils_addToCart ==
    Fn("none", Undefined,
       << CheckClient, Post("/add-to-cart"), CheckStatus >>, "value")

\* C8, changed: the callback settles the promise without db.close().
DbUtils_fetchOne_noClose ==
    Fn("none", Undefined, << GetConnection, DbQuery, SettlePromise >>, "value")

\* db.get / db.all / db.run, whose callback closes the connection and then
\* rejects or resolves the promise.
DbUtils_fetchOne ==
    Fn("none", Undefined, << GetConnection, DbQuery, DbClose, SettlePromise >>, "value")

DbUtils_fetchAll ==
    Fn("none", Undefined, << GetConnection, DbQuery, DbClose, SettlePromise >>, "value")

DbUtils_executeQuery ==
    Fn("none", Undefined, << GetConnection, DbQuery, DbClose, SettlePromise >>, "value")

DbUtils_getCartQuantity ==
    Fn("none", Undefined,
       << CallWithArg("DbUtils_fetchOne", "v") >>, "quantity")

\* resetTable(dbPath, 'cart'): DELETE FROM cart
DbUtils_resetTable ==
    Fn("none", Undefined, << Call("DbUtils_executeQuery", Undefined, "none") >>, "undefined")

\* getCartTotal: SELECT SUM(quantity) AS total FROM cart, the query without
\* an item id (0).
DbUtils_getCartTotal ==
    Fn("none", Undefined, << Call("DbUtils_fetchOne", 0, "v") >>, "quantity")

\* The step definitions; each wraps its body in try / catch and rethrows.
Step_theCartIsEmpty ==
    Fn("rethrow", Undefined, << Call("ApiUtils_resetCart", Undefined, "none") >>, "undefined")

\* C1, changed: the catch block logs the error and does not rethrow it.
Step_IAmOnTheHomePage_swallows ==
    Fn("swallow", Undefined, << Call("HomePage_open", Undefined, "none") >>, "undefined")

Step_IAmOnTheHomePage ==
    Fn("rethrow", Undefined, << Call("HomePage_open", Undefined, "none") >>, "undefined")

Step_IAddAnItemToTheCart ==
    Fn("rethrow", Undefined,
       << Call("HomePage_addFirstProductToCart", Undefined, "none"),
          Call("HomePage_assertSuccessNotificationVisible", Undefined, "none"),
          Call("HomePage_assertSuccessNotificationHidden", Undefined, "none") >>, "undefined")

Step_INavigateToTheCart ==
    Fn("rethrow", Undefined, << Call("HomePage_goToCart", Undefined, "none") >>, "undefined")

Step_IShouldSeeItemInTheCartList ==
    Fn("rethrow", Undefined,
       << Call("CartPage_getCartItems", Undefined, "v"), ExpectToBe >>, "undefined")

\* C12, changed: the quantity read is not compared with the expected one.
Step_theDatabaseShouldShowItemInTheCart_noExpect ==
    Fn("rethrow", Undefined,
       << Call("DbUtils_getCartQuantity", 1, "v") >>, "undefined")

Step_theDatabaseShouldShowItemInTheCart ==
    Fn("rethrow", Undefined,
       << Call("DbUtils_getCartQuantity", 1, "v"), ExpectToBe >>, "undefined")

Step_IAddItemsToTheCart ==
    Fn("rethrow", Undefined,
       << ForCount(6),
          Call("HomePage_addFirstProductToCart", Undefined, "none"),
          Call("HomePage_assertSuccessNotificationVisible", Undefined, "none"),
          Call("HomePage_assertSuccessNotificationHidden", Undefined, "none"),
          EndFor(1) >>, "undefined")

Step_theCartCountShouldBe ==
    Fn("rethrow", Undefined,
       << Call("HomePage_getCartCount", Undefined, "v"), ExpectToBe >>, "undefined")

\* Then(/^the page should be accessible$/): no try / catch; with violations
\* the argument 'Known Compliance Debt' is added and nothing is thrown,
\* without them expect(results.violations.length).toBe(0).
Step_thePageShouldBeAccessible ==
    Fn("none", Undefined,
       << Execute, AddAttachment, IfViolations(5), AddArgument(6), ExpectToBeZero >>,
       "undefined")

Program(op) ==
    CASE op = "HomePage_open" -> HomePage_open
      [] op = "HomePage_goToCart" -> HomePage_goToCart
      [] op = "HomePage_getCartCount" -> HomePage_getCartCount
      [] op = "HomePage_assertCartCount" -> HomePage_assertCartCount
      [] op = "CartPage_assertProductQuantity" -> CartPage_assertProductQuantity
      [] op = "CartPage_assertCartEmpty" -> CartPage_assertCartEmpty
      [] op = "HomePage_addToCartByItemId" -> HomePage_addToCartByItemId
      [] op = "HomePage_addFirstProductToCart" -> HomePage_addFirstProductToCart
      [] op = "HomePage_assertSuccessNotificationVisible" ->
            HomePage_assertSuccessNotificationVisible
      [] op = "HomePage_assertSuccessNotificationHidden" ->
            HomePage_assertSuccessNotificationHidden
      [] op = "CartPage_open" -> CartPage_open
      [] op = "CartPage_waitForCartPageLoad" -> CartPage_waitForCartPageLoad
      [] op = "CartPage_getCartItems" -> CartPage_getCartItems
      [] op = "CartPage_getProductQuantity" -> CartPage_getProductQuantity
      [] op = "CartPage_getTotalPrice" -> CartPage_getTotalPrice
      [] op = "CartPage_setProductQuantity" -> CartPage_setProductQuantity
      [] op = "CartPage_clickCheckout" -> CartPage_clickCheckout
      [] op = "CartPage_clickBackToShop" -> CartPage_clickBackToShop
      [] op = "CheckoutPage_open" -> CheckoutPage_open
      [] op = "CheckoutPage_waitForCheckoutPageLoad" ->
            CheckoutPage_waitForCheckoutPageLoad
      [] op = "ApiUtils_resetCart" -> ApiUtils_resetCart
      [] op = "ApiUtils_addToCart" -> ApiUtils_addToCart
      [] op = "DbUtils_fetchOne" -> DbUtils_fetchOne
      [] op = "DbUtils_fetchAll" -> DbUtils_fetchAll
      [] op = "DbUtils_executeQuery" -> DbUtils_executeQuery
      [] op = "DbUtils_getCartQuantity" -> DbUtils_getCartQuantity
      [] op = "DbUtils_resetTable" -> DbUtils_resetTable
      [] op = "DbUtils_getCartTotal" -> DbUtils_getCartTotal
      [] op = "Step_theCartIsEmpty" -> Step_theCartIsEmpty
      [] op = "Step_IAmOnTheHomePage" -> Step_IAmOnTheHomePage
      [] op = "Step_IAddAnItemToTheCart" -> Step_IAddAnItemToTheCart
      [] op = "Step_INavigateToTheCart" -> Step_INavigateToTheCart
      [] op = "Step_IShouldSeeItemInTheCartList" -> Step_IShouldSeeItemInTheCartList
      [] op = "Step_theDatabaseShouldShowItemInTheCart" ->
            Step_theDatabaseShouldShowItemInTheCart
      [] op = "Step_IAddItemsToTheCart" -> Step_IAddItemsToTheCart
      [] op = "Step_theCartCountShouldBe" -> Step_theCartCountShouldBe
      [] op = "Step_thePageShouldBeAccessible" -> Step_thePageShouldBeAccessible

\* ----------------------------------------------------------- the scenarios

\* The text of a step line or of a step definition's pattern, token by
\* token: a word, an integer literal, a quoted string, or a parameter of a
\* cucumber expression.
Word(w) == [t |-> "word", w |-> w, n |-> 0]
IntLit(n) == [t |-> "int", w |-> "", n |-> n]
StrLit(w) == [t |-> "string", w |-> w, n |-> 0]
Param(type) == [t |-> "param", w |-> type, n |-> 0]
Words(ws) == [i \in 1..Len(ws) |-> Word(ws[i])]

\* The step definitions registered with Given / When / Then.
StepDefinitions ==
    { [def |-> "Step_theCartIsEmpty",
       pattern |-> Words(<<"the", "cart", "is", "empty">>)],
      [def |-> "Step_IAmOnTheHomePage",
       pattern |-> Words(<<"I", "am", "on", "the", "home", "page">>)],
      [def |-> "Step_IAddAnItemToTheCart",
       pattern |-> Words(<<"I", "add", "an", "item", "to", "the", "cart">>)],
      [def |-> "Step_INavigateToTheCart",
       pattern |-> Words(<<"I", "navigate", "to", "the", "cart">>)],
      [def |-> "Step_IShouldSeeItemInTheCartList",
       pattern |-> Words(<<"I", "should", "see">>) \o <<Param("int")>>
                     \o Words(<<"item", "in", "the", "cart", "list">>)],
      [def |-> "Step_theDatabaseShouldShowItemInTheCart",
       pattern |-> Words(<<"the", "database", "should", "show">>) \o <<Param("int")>>
                     \o Words(<<"item", "in", "the", "cart">>)],
      [def |-> "Step_IAddItemsToTheCart",
       pattern |-> Words(<<"I", "add">>) \o <<Param("int")>>
                     \o Words(<<"items", "to", "the", "cart">>)],
      [def |-> "Step_theCartCountShouldBe",
       pattern |-> Words(<<"the", "cart", "count", "should", "be">>)
                     \o <<Param("int")>>],
      [def |-> "Step_IShouldSeeInTheCart",
       pattern |-> Words(<<"I", "should", "see">>) \o <<Param("string")>>
                     \o Words(<<"in", "the", "cart">>)],
      [def |-> "Step_thePageShouldBeAccessible",
       pattern |-> Words(<<"the", "page", "should", "be", "accessible">>)] }

\* The whole text matches the pattern: word for word, with a literal of its
\* type in the place of each parameter.
Matches(text, pattern) ==
    /\ Len(text) = Len(pattern)
    /\ \A i \in 1..Len(text) :
          IF pattern[i].t = "param"
          THEN text[i].t = pattern[i].w
          ELSE text[i] = pattern[i]

MatchingDefinitions(text) == {d \in StepDefinitions : Matches(text, d.pattern)}

\* A step line: the step definition it matches ("undefined" when none
\* does, "ambiguous" when several do) and the value of its {int} parameter.
StepLine(def, arg) == [def |-> def, arg |-> arg]

Step(text) ==
    LET defs == MatchingDefinitions(text)
        ints == {i \in 1..Len(text) : text[i].t = "int"}
    IN  StepLine(IF defs = {} THEN "undefined"
                 ELSE IF Cardinality(defs) > 1 THEN "ambiguous"
                 ELSE (CHOOSE d \in defs : TRUE).def,
                 IF ints = {} \/ Cardinality(defs) # 1 THEN Undefined
                 ELSE text[CHOOSE i \in ints : TRUE].n)

\* features/AddToCart.feature
AddToCart_feature ==
    << Step(Words(<<"the", "cart", "is", "empty">>)),
       Step(Words(<<"I", "am", "on", "the", "home", "page">>)),
       Step(Words(<<"I", "add", "an", "item", "to", "the", "cart">>)),
       Step(Words(<<"I", "navigate", "to", "the", "cart">>)),
       Step(Words(<<"I", "should", "see">>) \o <<IntLit(1)>>
              \o Words(<<"item", "in", "the", "cart", "list">>)),
       Step(Words(<<"the", "database", "should", "show">>) \o <<IntLit(1)>>
              \o Words(<<"item", "in", "the", "cart">>)) >>

\* The feature 'Add to Cart Functionality'.
AddToCartFunctionality_feature ==
    << Step(Words(<<"the", "API", "has", "reset", "the", "cart">>)),
       Step(Words(<<"I", "am", "on", "the", "home", "page">>)),
       Step(Words(<<"I", "add", "the", "item">>) \o <<StrLit("Koala")>>
              \o Words(<<"to", "the", "cart">>)),
       Step(Words(<<"I", "navigate", "to", "the", "cart">>)),
       Step(Words(<<"I", "should", "see">>) \o <<IntLit(1)>>
              \o Words(<<"item", "in", "the", "cart", "list">>)),
       Step(Words(<<"the", "database", "should", "show">>) \o <<IntLit(1)>>
              \o Words(<<"item", "in", "the", "cart">>)) >>

\* A scenario of the additional steps: 'I add <n> items to the cart', then
\* 'the cart count should be <n>'.
AddItems_scenario(n) ==
    << Step(Words(<<"the", "cart", "is", "empty">>)),
       Step(Words(<<"I", "am", "on", "the", "home", "page">>)),
       Step(Words(<<"I", "add">>) \o <<IntLit(n)>>
              \o Words(<<"items", "to", "the", "cart">>)),
       Step(Words(<<"the", "cart", "count", "should", "be">>) \o <<IntLit(n)>>) >>

\* A scenario of the accessibility step, on the home page.
Accessibility_scenario ==
    << Step(Words(<<"I", "am", "on", "the", "home", "page">>)),
       Step(Words(<<"the", "page", "should", "be", "accessible">>)) >>

\* The scenarios run; the accessibility check is run configured with the
\* soft policy and with the strict one.
ScenarioIds ==
    {<<"AddToCart", 0>>, <<"AddToCartFunctionality", 0>>,
     <<"AccessibilitySoft", 0>>, <<"AccessibilityStrict", 0>>}
        \cup {<<"AddItems", n>> : n \in 0..MaxCount}

Steps(id) ==
    CASE id[1] = "AddToCart" -> AddToCart_feature
      [] id[1] = "AddToCartFunctionality" -> AddToCartFunctionality_feature
      [] id[1] = "AddItems" -> AddItems_scenario(id[2])
      [] id[1] \in {"AccessibilitySoft", "AccessibilityStrict"} ->
            Accessibility_scenario

\* ------------------------------------------------------------------ state

VARIABLES
    url,          \* the page the browser is on: "blank", "home", "cart", "checkout"
    rendered,     \* the page's DOM is rendered
    notif,        \* the success notification: "none" or "shown"
    pendingAdds,  \* add-to-cart clicks the server has not processed, per item
    pendingNav,   \* the page a clicked link is taking the browser to, or "none"
    pendingSet,   \* a quantity selection the server has not applied, or <<>>
    cart,         \* the cart table of shop.db: item -> quantity
    conns,        \* connections DbUtils has opened and not closed
    baseUrl,      \* browser.options.baseUrl is defined
    client,       \* ApiUtils.client: "none", or set by the Before hook of this
                  \* scenario ("fresh"), of an earlier one ("stale") or of a
                  \* scenario running at the same time ("other")
    stack,        \* the call stack of the running flow
    ret,          \* how the last top-level call ended
    phase,        \* the runner: "idle", "before", "steps", "after"
    scenario,     \* the scenario being run
    results,      \* the StepResult statuses recorded so far
    executed,     \* the steps whose definition was invoked
    stepErrors,   \* the steps in whose definition an error was raised
    http,         \* the last HTTP response, whether the call it answered has
                  \* succeeded, and whether the call before it was an
                  \* addToCart that succeeded
    lastRet,      \* history: the function that completed last
    clk,          \* history: the add-to-cart clicks of the current call
    chosen        \* history: the option selections of the current call

vars == << url, rendered, notif, pendingAdds, pendingNav, pendingSet, cart, conns,
           baseUrl, client, stack, ret, phase, scenario, results, executed,
           stepErrors, http, lastRet, clk, chosen >>

appVars == << url, rendered, notif, pendingAdds, pendingNav, pendingSet, cart >>
runnerVars == << phase, scenario, results, executed >>

Min(a, b) == IF a < b THEN a ELSE b
Max(a, b) == IF a > b THEN a ELSE b

\* ------------------------------------------------- what the browser shows

RECURSIVE SumOver(_, _)
SumOver(S, f) ==
    IF S = {} THEN 0
    ELSE LET i == CHOOSE x \in S : TRUE IN f[i] + SumOver(S \ {i}, f)

CartCount == SumOver(Items, cart)
CartTotal == SumOver(Items, [i \in Items |-> cart[i] * ItemPrice(i)])

\* The quantity the dropdown of item i shows: a selection shows at once.
ShownQty(i) == IF pendingSet # <<>> /\ pendingSet[1] = i THEN pendingSet[2] ELSE cart[i]

\* The rows of the cart table, in item order.
RowItems == {i \in Items : cart[i] > 0}
CartPageShown == url = "cart" /\ rendered

\* The first row whose name cell contains productName, 0 when there is none.
RowOf(productName) ==
    LET hits == {i \in RowItems : Contains(ItemName(i), productName)}
    IN  IF CartPageShown /\ hits # {} THEN CHOOSE i \in hits : \A j \in hits : i <= j
        ELSE 0

TwoDigits(n) == <<DigitChar(n \div 10), DigitChar(n % 10)>>
\* "Total Price: $XX.XX"
TotalPriceText(cents) ==
    <<"T", "o", "t", "a", "l", " ", "P", "r", "i", "c", "e", ":", " ", "$">>
        \o IntText(cents \div 100) \o <<".">> \o TwoDigits(cents % 100)

NotificationText == <<"a", "d", "d", "e", "d">>

Displayed(sel, arg) ==
    CASE sel = "ul > li" -> url = "home" /\ rendered
      [] sel = "addToCartButton" -> url = "home" /\ rendered /\ arg \in Items
      [] sel \in {"#cart-link", "#cart-link span"} -> url # "blank" /\ rendered
      [] sel = ".notification" -> notif = "shown"
      [] sel \in {"table", "h2", "#checkout-button", "#shop-link"} -> CartPageShown
      [] sel = ".checkout-container" -> url = "checkout" /\ rendered
      [] sel = "option:checked" -> RowOf(arg) # 0

TextOf(sel, arg) ==
    CASE sel = "#cart-link span" -> IntText(CartCount)
      [] sel = ".notification" -> NotificationText
      [] sel = "h2" -> TotalPriceText(CartTotal)
      [] sel = "option:checked" -> IntText(ShownQty(RowOf(arg)))

Hidden == <<"none", 0, 0>>
\* The total the heading displays, as the number it reads as.
DisplayedTotal == IF CartPageShown THEN Normalise(CartTotal, 2) ELSE Hidden

\* What a wait polls for.
Holds(ins, arg) ==
    CASE ins.cond \in {"displayed", "clickable"} -> Displayed(ins.sel, arg)
      [] ins.cond = "hidden" -> ~Displayed(ins.sel, arg)
      [] ins.cond = "url" -> url = ins.sel
      [] ins.cond = "notUrl" -> url # ins.sel

\* ------------------------------------------------------- what is returned

\* parseInt(text.trim(), 10)
ParseCount(text) == ParseInt(Trim(text))

\* priceMatch ? parseFloat(priceMatch[0]) : -1
ParsePrice(totalText) ==
    LET priceMatch == RegexNumberMatch(totalText)
    IN  IF priceMatch # <<>> THEN ParseFloat(priceMatch) ELSE JsInt(-1)

\* C22, changed: the column is returned as it is, without the default 0.
QuantityOfRow_noDefault(row) == row

\* row && row.quantity ? parseInt(row.quantity, 10) : 0, and the same for
\* row.total; parseInt converts the number to its decimal text first.
QuantityOfRow(row) ==
    IF row[1] = "num" /\ row # JsInt(0) THEN ParseInt(IntText(row[2])) ELSE JsInt(0)

\* The value a function returns after the last call of its body.
Returns(how, f) ==
    CASE how = "undefined" -> Undefined
      [] how = "parseInt" -> ParseCount(f.v)
      [] how = "price" -> ParsePrice(f.v)
      [] how = "quantity" -> QuantityOfRow(f.v)
      [] how = "value" -> f.v

\* ---------------------------------------------------------- the call stack

NewFrame(op, arg) ==
    [op |-> op, pc |-> 1, el |-> 0, polls |-> 0, i |-> 0, arg |-> arg,
     v |-> Undefined, old |-> Undefined, to |-> FALSE, seen |-> {},
     got |-> FALSE, r |-> Undefined, acts |-> 0]

Top == stack[Len(stack)]
Body == Program(Top.op).body
Ins == Body[Top.pc]
\* The top frame is about to run an instruction of this kind.
At(kind) == stack # <<>> /\ ~Top.got /\ Ins.k = kind
\* The call the top frame made at an instruction of this kind has returned.
Returned(kind) == stack # <<>> /\ Top.got /\ Ins.k = kind

\* What the page shows: the count of the cart badge, the total of the cart
\* page's heading and the quantity each row of its table has selected, as
\* the numbers they read as (Hidden for what is not displayed).
Dom == [count |-> IF Displayed("#cart-link span", Undefined)
                  THEN JsInt(CartCount) ELSE Hidden,
        total |-> DisplayedTotal,
        qty |-> [i \in Items |-> IF CartPageShown /\ i \in RowItems
                                 THEN JsInt(ShownQty(i)) ELSE Hidden]]

\* The completion of a function: how it ended, its locals, the clicks and
\* selections it issued, the iterations its loop completed, the timeout and
\* the elapsed time of its wait when that timed out, and what the page
\* showed at that moment.
Record(f, status, value) ==
    [op |-> f.op, arg |-> f.arg, status |-> status, value |-> value, v |-> f.v,
     old |-> f.old, r |-> f.r, to |-> f.to, seen |-> f.seen, dom |-> Dom,
     acts |-> f.acts,
     i |-> f.i, el |-> IF f.to THEN f.el ELSE 0,
     t |-> IF f.to THEN Program(f.op).body[f.pc].t ELSE 0]

NoRet == [status |-> "none", value |-> Undefined]
NoLast == [op |-> "none", arg |-> Undefined, status |-> "none", value |-> Undefined,
           v |-> Undefined, old |-> Undefined, r |-> Undefined, to |-> FALSE,
           seen |-> {},
           dom |-> [count |-> Hidden, total |-> Hidden,
                    qty |-> [i \in Items |-> Hidden]],
           acts |-> 0, i |-> 0, el |-> 0, t |-> 0]

\* The top frame of stk returns value to its caller.
Finish(stk, value) ==
    LET f == stk[Len(stk)]
        rest == SubSeq(stk, 1, Len(stk) - 1)
    IN  IF rest = <<>>
        THEN [stack |-> <<>>, ret |-> [status |-> "ok", value |-> value],
              last |-> Record(f, "ok", value)]
        ELSE [stack |-> [rest EXCEPT ![Len(rest)] =
                            [@ EXCEPT !.got = TRUE, !.r = value,
                                      !.seen = @ \cup f.seen]],
              ret |-> NoRet,
              last |-> Record(f, "ok", value)]

\* An error is thrown in the top frame of stk: each frame's catch block
\* decides whether it ends there or goes on to the caller.
RECURSIVE Raise(_)
Raise(stk) ==
    LET f == stk[Len(stk)]
        rest == SubSeq(stk, 1, Len(stk) - 1)
        catch == Program(f.op).catch
    IN  IF catch = "swallow" THEN Finish(stk, Undefined)
        ELSE IF catch = "sentinel" THEN Finish(stk, Program(f.op).sentinel)
        ELSE IF rest = <<>>
        THEN [stack |-> <<>>, ret |-> [status |-> "throw", value |-> Undefined],
              last |-> Record(f, "throw", Undefined)]
        ELSE Raise(rest)

SetTop(f) == [stack EXCEPT ![Len(stack)] = f]

\* The step of the scenario that is running, 0 outside a step.
StepIdx == IF phase = "steps" /\ stack # <<>> THEN Len(results) + 1 ELSE 0

\* An error thrown in the top frame of stk reaches its bottom frame (the
\* step definition, in a scenario): no function between them catches it.
RECURSIVE ReachesBottom(_)
ReachesBottom(stk) ==
    \/ Len(stk) = 1
    \/ /\ Program(stk[Len(stk)].op).catch \in {"none", "rethrow"}
       /\ ReachesBottom(SubSeq(stk, 1, Len(stk) - 1))

Complete(res, error) ==
    /\ stack' = res.stack
    /\ lastRet' = res.last
    /\ ret' = IF res.stack = <<>> THEN res.ret ELSE ret
    /\ stepErrors' = IF error /\ phase = "steps"
                     THEN stepErrors \cup {StepIdx} ELSE stepErrors

ThrowFrom(stk) == Complete(Raise(stk), ReachesBottom(stk))
Throw == ThrowFrom(stack)
\* A wait of the top frame timed out.
ThrowTimeout == ThrowFrom(SetTop([Top EXCEPT !.to = TRUE]))
\* The flow goes on inside the running functions: nothing completes.
Continue(stk) ==
    /\ stack' = stk
    /\ lastRet' = NoLast
    /\ UNCHANGED << ret, stepErrors >>
Go(f) == Continue(SetTop(f))
\* The top frame goes to instruction pc; past the last one it returns, in
\* the same step (nothing is awaited between the last call and the return).
Goto(f, pc) ==
    LET g == [f EXCEPT !.pc = pc, !.el = 0, !.polls = 0, !.got = FALSE]
        fn == Program(f.op)
    IN  IF pc > Len(fn.body)
        THEN Complete(Finish(SetTop(g), Returns(fn.result, g)), FALSE)
        ELSE Go(g)
Proceed(f) == Goto(f, f.pc + 1)

\* --------------------------------------------------- the browser commands

NoClicks == [n |-> 0, shown |-> FALSE, hidden |-> FALSE, ok |-> TRUE, overlap |-> FALSE,
             items |-> {}, ready |-> TRUE, clean |-> TRUE]
NoChoice == [n |-> 0, before |-> Hidden, item |-> 0, q |-> 0]

\* browser.url(path)
BrowserUrl ==
    /\ At("url")
    /\ url' = Ins.a
    /\ rendered' = FALSE
    /\ notif' = "none"
    /\ pendingNav' = "none"
    /\ Proceed(Top)
    /\ UNCHANGED << pendingAdds, pendingSet, cart, conns, baseUrl, client,
                    runnerVars, http, clk, chosen >>

\* The frame at level j of the stack is inside a browser.waitUntil.
InWaitUntil(j) ==
    LET f == stack[j]
        body == Program(f.op).body
    IN  f.pc <= Len(body) /\ body[f.pc].k = "waitUntil"

\* One interval passes in the wait of the top frame; the time counts for
\* every browser.waitUntil that is waiting for it too.
IntervalPasses ==
    [j \in 1..Len(stack) |->
        IF j = Len(stack)
        THEN [stack[j] EXCEPT !.el = @ + WaitforInterval, !.polls = @ + 1]
        ELSE IF InWaitUntil(j)
        THEN [stack[j] EXCEPT !.el = @ + WaitforInterval]
        ELSE stack[j]]

\* What the flow has observed of the notification since its last click.
Observe(ins) ==
    IF ins.sel = ".notification" /\ ins.cond = "displayed"
    THEN [clk EXCEPT !.shown = TRUE]
    ELSE IF ins.sel = ".notification" /\ ins.cond = "hidden"
    THEN [clk EXCEPT !.hidden = clk.shown]
    ELSE clk

\* One poll of waitForDisplayed / waitForClickable / browser.waitUntil(url).
WaitPoll ==
    /\ At("wait")
    /\ Top.el < Ins.t
    /\ IF Holds(Ins, Top.arg)
       THEN /\ Proceed([Top EXCEPT !.seen = @ \cup {<<Ins.cond, Ins.sel>>}])
            /\ clk' = Observe(Ins)
       ELSE /\ Continue(IntervalPasses)
            /\ clk' = clk
    /\ UNCHANGED << appVars, conns, baseUrl, client, runnerVars, http, chosen >>

\* C15, changed: a wait may give up before its timeout has passed.
WaitTimeout_early ==
    /\ At("wait")
    /\ ThrowTimeout
    /\ UNCHANGED << appVars, conns, baseUrl, client, runnerVars, http, clk, chosen >>

\* The timeout of the wait has passed: it throws.
WaitTimeout ==
    /\ At("wait")
    /\ Top.el >= Ins.t
    /\ ThrowTimeout
    /\ UNCHANGED << appVars, conns, baseUrl, client, runnerVars, http, clk, chosen >>

\* The page a link or button leads to.
LinkTarget(sel) ==
    CASE sel = "#cart-link" -> "cart"
      [] sel = "#checkout-button" -> "checkout"
      [] sel = "#shop-link" -> "home"

\* element.click()
ElementClick ==
    /\ At("click")
    /\ IF ~Displayed(Ins.sel, Top.arg)
       THEN /\ Throw
            /\ UNCHANGED << pendingNav, pendingAdds, clk >>
       ELSE /\ Proceed([Top EXCEPT !.acts = @ + 1])
            /\ IF Ins.sel # "addToCartButton"
               THEN /\ pendingNav' = LinkTarget(Ins.sel)
                    /\ UNCHANGED << pendingAdds, clk >>
               ELSE /\ pendingAdds' = [pendingAdds EXCEPT
                                          ![Top.arg] = Min(@ + 1, MaxQty)]
                    /\ clk' = [n |-> clk.n + 1, shown |-> FALSE, hidden |-> FALSE,
                               ok |-> clk.ok /\ (clk.n = 0 \/ (clk.shown /\ clk.hidden)),
                               overlap |-> \/ clk.overlap
                                           \/ /\ clk.n > 0
                                              /\ \/ notif = "shown"
                                                 \/ \E i \in Items : pendingAdds[i] > 0,
                               items |-> clk.items \cup {Top.arg},
                               ready |-> /\ clk.ready
                                         /\ <<"displayed", Ins.sel>> \in Top.seen,
                               clean |-> clk.clean]
                    /\ UNCHANGED pendingNav
    /\ UNCHANGED << url, rendered, notif, pendingSet, cart, conns, baseUrl, client,
                    runnerVars, http, chosen >>

\* element.getText()
ElementGetText ==
    /\ At("getText")
    /\ IF Displayed(Ins.sel, Top.arg)
       THEN Proceed([Top EXCEPT !.v = TextOf(Ins.sel, Top.arg)])
       ELSE Throw
    /\ UNCHANGED << appVars, conns, baseUrl, client, runnerVars, http, clk, chosen >>

\* Texts the badge may hold when the application does not render a count
\* in it: nothing, a blank, a word, a count followed by a word.
BadgeTexts == {<<>>, <<" ">>, <<"-">>, <<"n", "/", "a">>, <<"2", " ", "x">>}

\* badge.getText() on a badge that does not hold a count.
ElementGetBadgeText ==
    /\ At("getText")
    /\ Ins.sel = "#cart-link span"
    /\ Displayed(Ins.sel, Top.arg)
    /\ \E text \in BadgeTexts : Proceed([Top EXCEPT !.v = text])
    /\ UNCHANGED << appVars, conns, baseUrl, client, runnerVars, http, clk, chosen >>

\* $$('tbody > tr'): the rows there are now, none on another page.
ElementsQuery ==
    /\ At("elements")
    /\ Proceed([Top EXCEPT
              !.v = JsInt(IF CartPageShown THEN Cardinality(RowItems) ELSE 0)])
    /\ UNCHANGED << appVars, conns, baseUrl, client, runnerVars, http, clk, chosen >>

\* dropdown.selectByVisibleText(String(newQuantity)) in the row of productName.
SelectOption ==
    /\ At("select")
    /\ LET row == RowOf(Top.arg[1])
           q == Top.arg[2]
       IN  IF row = 0 \/ q \notin 0..MaxQty
           THEN /\ Throw
                /\ UNCHANGED << pendingSet, chosen >>
           ELSE /\ Proceed([Top EXCEPT !.acts = @ + 1])
                /\ pendingSet' = IF q # ShownQty(row) THEN <<row, q>> ELSE pendingSet
                /\ chosen' = [n |-> chosen.n + 1, before |-> DisplayedTotal, item |-> row, q |-> q]
    /\ UNCHANGED << url, rendered, notif, pendingAdds, pendingNav, cart, conns,
                    baseUrl, client, runnerVars, http, clk >>

\* ------------------------------------------------------- calls and returns

\* await f(arg): the callee starts.
CallFunction ==
    /\ At("call")
    /\ Continue(Append(stack,
                NewFrame(Ins.a, IF ~Ins.pass THEN Ins.arg
                                ELSE IF "part" \in DOMAIN Ins THEN Top.arg[Ins.part]
                                ELSE Top.arg)))
    /\ UNCHANGED << appVars, conns, baseUrl, client, runnerVars, http, clk, chosen >>

\* The callee has returned: its value goes to the local the call names.
CallReturned ==
    /\ Returned("call")
    /\ Proceed(IF Ins.store = "v" THEN [Top EXCEPT !.v = Top.r]
               ELSE IF Ins.store = "old" THEN [Top EXCEPT !.old = Top.r]
               ELSE Top)
    /\ UNCHANGED << appVars, conns, baseUrl, client, runnerVars, http, clk, chosen >>

\* browser.waitUntil(condition, { timeout }): the condition is called, at
\* once the first time and then once per interval while there is time.
PredicateCall ==
    /\ At("waitUntil")
    /\ Top.polls = 0 \/ Top.el < Ins.t
    /\ Continue(Append(stack, NewFrame(Ins.a, Undefined)))
    /\ UNCHANGED << appVars, conns, baseUrl, client, runnerVars, http, clk, chosen >>

\* newPrice !== oldPrice
PriceChanged(newPrice, oldPrice) == StrictNotEqual(newPrice, oldPrice)

\* The condition has returned. After the timeout (and not on its first
\* call) the wait has already been rejected, when the timeout passed;
\* otherwise a true result ends the wait and a false one leaves it to the
\* next interval.
PredicateReturned ==
    /\ Returned("waitUntil")
    /\ IF Top.polls > 0 /\ Top.el >= Ins.t
       THEN ThrowFrom(SetTop([Top EXCEPT !.to = TRUE, !.el = Ins.t]))
       ELSE IF PriceChanged(Top.r, Top.old)
       THEN Proceed([Top EXCEPT !.seen = @ \cup {<<"changed", "h2">>}])
       ELSE Go([Top EXCEPT !.got = FALSE, !.polls = @ + 1,
                           !.el = Max(@, (Top.polls + 1) * WaitforInterval)])
    /\ UNCHANGED << appVars, conns, baseUrl, client, runnerVars, http, clk, chosen >>

\* The timeout of browser.waitUntil has passed between two calls.
PredicateTimeout ==
    /\ At("waitUntil")
    /\ Top.polls > 0 /\ Top.el >= Ins.t
    /\ ThrowTimeout
    /\ UNCHANGED << appVars, conns, baseUrl, client, runnerVars, http, clk, chosen >>

\* for (let i = 0; i < count; i++)
ForLoop ==
    /\ At("for")
    /\ IF Top.i < Top.arg THEN Proceed(Top) ELSE Goto(Top, Ins.a)
    /\ UNCHANGED << appVars, conns, baseUrl, client, runnerVars, http, clk, chosen >>

ForNext ==
    /\ At("endfor")
    /\ Goto([Top EXCEPT !.i = @ + 1], Ins.a)
    /\ UNCHANGED << appVars, conns, baseUrl, client, runnerVars, http, clk, chosen >>

\* expect(actual).toBe(expected)
ExpectStep ==
    /\ At("expect")
    /\ LET expected == IF "literal" \in DOMAIN Ins THEN Ins.literal ELSE Top.arg
       IN  IF Top.v = JsInt(expected) THEN Proceed(Top) ELSE Throw
    /\ UNCHANGED << appVars, conns, baseUrl, client, runnerVars, http, clk, chosen >>

\* if (actual !== expected) throw new Error(...) of the assert methods of
\* the page objects; if (items.length > 0) throw of assertCartEmpty.
ThrowIf ==
    /\ At("throwIf")
    /\ LET expected == IF Ins.part = 0 THEN Top.arg ELSE Top.arg[Ins.part]
       IN  IF \/ Ins.cond = "differs" /\ StrictNotEqual(Top.v, JsInt(expected))
              \/ Ins.cond = "notEmpty" /\ Top.v[2] > 0
           THEN Throw ELSE Proceed(Top)
    /\ UNCHANGED << appVars, conns, baseUrl, client, runnerVars, http, clk, chosen >>

\* ------------------------------------------------- the accessibility step

\* browser.execute(axe.run): the scan reports its violations, or fails.
BrowserExecute ==
    /\ At("execute")
    /\ \/ \E n \in 0..MaxViolations : Proceed([Top EXCEPT !.v = JsInt(n)])
       \/ Throw
    /\ UNCHANGED << appVars, conns, baseUrl, client, runnerVars, http, clk, chosen >>

\* allureReporter.addAttachment / addArgument: the reporter records the
\* entry, or fails.
AllureReport ==
    /\ At("report")
    /\ \/ Goto([Top EXCEPT !.seen = @ \cup {<<"reported", Ins.a>>}], Ins.next)
       \/ ThrowFrom(SetTop([Top EXCEPT !.seen = @ \cup {<<"failed", Ins.a>>}]))
    /\ UNCHANGED << appVars, conns, baseUrl, client, runnerVars, http, clk, chosen >>

\* if (results.violations.length > 0)
ViolationsBranch ==
    /\ At("if")
    /\ IF Top.v[2] > 0 THEN Proceed(Top) ELSE Goto(Top, Ins.a)
    /\ UNCHANGED << appVars, conns, baseUrl, client, runnerVars, http, clk, chosen >>

\* ------------------------------------------------------------- ApiUtils

\* if (!this.client) throw
ApiCheckClient ==
    /\ At("checkClient")
    /\ IF client # "none" THEN Proceed(Top) ELSE Throw
    /\ UNCHANGED << appVars, conns, baseUrl, client, runnerVars, http, clk, chosen >>

\* The request is one the server carries out.
Served(status) == status \in 200..399

\* this.client.post(path): any status comes back as a response
\* (validateStatus: () => true); the request may also fail to be sent.
ApiPost ==
    /\ At("post")
    /\ \/ \E status \in StatusCodes :
            /\ Proceed([Top EXCEPT !.v = JsInt(status)])
            /\ http' = [path |-> Ins.a, status |-> status, ok |-> FALSE,
                        after |-> http.after]
            /\ cart' = IF ~Served(status) THEN cart
                       ELSE IF Ins.a = "/reset-cart" THEN EmptyCart
                       ELSE [cart EXCEPT ![Top.arg] = Min(@ + 1, MaxQty)]
            /\ pendingSet' = IF Served(status) /\ Ins.a = "/reset-cart"
                             THEN <<>> ELSE pendingSet
       \/ /\ Throw
          /\ UNCHANGED << http, cart, pendingSet >>
    /\ UNCHANGED << url, rendered, notif, pendingAdds, pendingNav, conns, baseUrl,
                    client, runnerVars, clk, chosen >>

\* if (response.status < 200 || response.status >= 300) throw
ApiCheckStatus ==
    /\ At("checkStatus")
    /\ IF StatusRejected(Top.v[2])
       THEN Throw /\ http' = http
       ELSE Proceed(Top) /\ http' = [http EXCEPT !.ok = TRUE]
    /\ UNCHANGED << appVars, conns, baseUrl, client, runnerVars, clk, chosen >>

\* -------------------------------------------------------------- DbUtils

SqlError == <<"error", 0, 0>>

\* await this.getConnection(dbPath): the file opens, or the promise rejects.
DbGetConnection ==
    /\ At("getConnection")
    /\ \/ /\ Proceed([Top EXCEPT !.seen = @ \cup {<<"open", "db">>}])
          /\ conns' = conns + 1
       \/ /\ Throw
          /\ conns' = conns
    /\ UNCHANGED << appVars, baseUrl, client, runnerVars, http, clk, chosen >>

\* db.get / db.all / db.run: the callback gets an error, or the answer.
\* fetchOne reads the quantity of an item (a row without the column when
\* the item has none) or the sum of all quantities (NULL for no rows),
\* fetchAll the rows of the cart, executeQuery deletes them.
DbRunQuery ==
    /\ At("query")
    /\ \/ /\ Proceed([Top EXCEPT !.v = SqlError])
          /\ cart' = cart
       \/ /\ Top.op = "DbUtils_fetchOne"
          /\ Proceed([Top EXCEPT
                         !.v = IF Top.arg = 0
                               THEN IF RowItems = {} THEN Undefined
                                    ELSE JsInt(CartCount)
                               ELSE IF cart[Top.arg] > 0 THEN JsInt(cart[Top.arg])
                               ELSE Undefined])
          /\ cart' = cart
       \/ /\ Top.op = "DbUtils_fetchAll"
          /\ Proceed([Top EXCEPT !.v = JsInt(Cardinality(RowItems))])
          /\ cart' = cart
       \/ /\ Top.op = "DbUtils_executeQuery"
          /\ Proceed(Top)
          /\ cart' = EmptyCart
    /\ UNCHANGED << url, rendered, notif, pendingAdds, pendingNav, pendingSet, conns,
                    baseUrl, client, runnerVars, http, clk, chosen >>

\* db.close()
DbCloseConn ==
    /\ At("close")
    /\ conns' = conns - 1
    /\ Proceed([Top EXCEPT !.seen = @ \cup {<<"close", "db">>}])
    /\ UNCHANGED << appVars, baseUrl, client, runnerVars, http, clk, chosen >>

\* if (err) reject(err) else resolve(row || null)
DbSettle ==
    /\ At("settle")
    /\ IF Top.v = SqlError THEN Throw ELSE Proceed(Top)
    /\ UNCHANGED << appVars, conns, baseUrl, client, runnerVars, http, clk, chosen >>

\* --------------------------------------------------- the scenario runner

StepsNow == Steps(scenario)
\* The last HTTP response: its path and status, and whether the call that
\* received it returned normally.
NoHttp == [path |-> "none", status |-> 0, ok |-> FALSE, after |-> FALSE]

\* A scenario of a feature file starts.
RunScenario ==
    /\ phase = "idle" /\ stack = <<>>
    /\ \E id \in ScenarioIds : scenario' = id
    /\ phase' = "before"
    /\ results' = <<>>
    /\ executed' = {}
    /\ stepErrors' = {}
    /\ http' = NoHttp
    /\ ret' = NoRet
    /\ lastRet' = NoLast
    /\ clk' = NoClicks
    /\ chosen' = NoChoice
    /\ client' = IF client = "none" THEN "none" ELSE "stale"
    /\ UNCHANGED << appVars, conns, baseUrl, stack >>

\* C19, changed: the hook does not call ApiUtils.initialize.
BeforeHook_noInitialize ==
    /\ phase = "before"
    /\ IF baseUrl
       THEN /\ client' = client
            /\ phase' = "steps"
            /\ results' = results
       ELSE /\ client' = client
            /\ phase' = "after"
            /\ results' = [i \in 1..Len(StepsNow) |-> "skipped"]
    /\ UNCHANGED << appVars, conns, baseUrl, stack, ret, scenario, executed,
                    stepErrors, http, lastRet, clk, chosen >>

\* Before: ApiUtils.initialize(baseUrl), or an error when there is no
\* base URL; a failed hook leaves every step skipped.
BeforeHook ==
    /\ phase = "before"
    /\ IF baseUrl
       THEN /\ client' = "fresh"
            /\ phase' = "steps"
            /\ results' = results
       ELSE /\ client' = client
            /\ phase' = "after"
            /\ results' = [i \in 1..Len(StepsNow) |-> "skipped"]
    /\ UNCHANGED << appVars, conns, baseUrl, stack, ret, scenario, executed,
                    stepErrors, http, lastRet, clk, chosen >>

\* The Before hook of a second scenario flow, running in the same process
\* while the steps of this one run: ApiUtils.client is a static field, so
\* its ApiUtils.initialize(baseUrl) replaces the client of both.
OtherFlowBeforeHook ==
    /\ phase = "steps"
    /\ baseUrl
    /\ client # "other"
    /\ client' = "other"
    /\ UNCHANGED << appVars, conns, baseUrl, stack, ret, runnerVars, stepErrors,
                    http, lastRet, clk, chosen >>

\* No step before this one has failed or is undefined.
AllPassed == \A i \in 1..Len(results) : results[i] = "passed"
NextStep == StepsNow[Len(results) + 1]

\* The runner invokes the definition of the next step.
StepBegin ==
    /\ phase = "steps" /\ stack = <<>> /\ ret.status = "none"
    /\ Len(results) < Len(StepsNow)
    /\ AllPassed
    /\ NextStep.def \notin {"undefined", "ambiguous"}
    /\ stack' = << NewFrame(NextStep.def, NextStep.arg) >>
    /\ executed' = executed \cup {Len(results) + 1}
    /\ clk' = [NoClicks EXCEPT !.clean = /\ cart = EmptyCart
                                         /\ pendingAdds = EmptyCart
                                         /\ notif = "none"]
    /\ chosen' = NoChoice
    /\ UNCHANGED << appVars, conns, baseUrl, client, ret, phase, scenario, results,
                    stepErrors, http, lastRet >>

\* The definition has returned or thrown: the step passed or failed.
StepEnd ==
    /\ phase = "steps" /\ stack = <<>> /\ ret.status # "none"
    /\ results' = Append(results, IF ret.status = "ok" THEN "passed" ELSE "failed")
    /\ ret' = NoRet
    /\ UNCHANGED << appVars, conns, baseUrl, client, stack, phase, scenario, executed,
                    stepErrors, http, lastRet, clk, chosen >>

\* A step line that matches no definition is undefined, one that matches
\* several is ambiguous; a step after a failed, undefined or ambiguous one
\* is skipped.
StepSkip ==
    /\ phase = "steps" /\ stack = <<>> /\ ret.status = "none"
    /\ Len(results) < Len(StepsNow)
    /\ ~AllPassed \/ NextStep.def \in {"undefined", "ambiguous"}
    /\ results' = Append(results, IF AllPassed THEN NextStep.def ELSE "skipped")
    /\ UNCHANGED << appVars, conns, baseUrl, client, stack, ret, phase, scenario,
                    executed, stepErrors, http, lastRet, clk, chosen >>

\* Every step has its result: the After hook runs.
AfterHook ==
    /\ phase = "steps" /\ stack = <<>> /\ ret.status = "none"
    /\ Len(results) = Len(StepsNow)
    /\ phase' = "after"
    /\ UNCHANGED << appVars, conns, baseUrl, client, stack, ret, scenario, results,
                    executed, stepErrors, http, lastRet, clk, chosen >>

\* The scenario is over.
ScenarioEnd ==
    /\ phase = "after"
    /\ phase' = "idle"
    /\ results' = <<>>
    /\ executed' = {}
    /\ stepErrors' = {}
    /\ http' = NoHttp
    /\ UNCHANGED << appVars, conns, baseUrl, client, stack, ret, scenario, lastRet,
                    clk, chosen >>

\* ---------------------------------------------------------- direct calls

ProductNames == {Koala, Dog, Cat}

Start(op, arg) ==
    /\ stack' = << NewFrame(op, arg) >>
    /\ ret' = NoRet
    /\ lastRet' = NoLast
    /\ clk' = NoClicks
    /\ chosen' = NoChoice

\* Between scenarios, a hook or a step of another feature calls ApiUtils.
InvokeApi ==
    /\ phase = "idle" /\ stack = <<>>
    /\ \/ Start("ApiUtils_resetCart", Undefined)
       \/ \E itemId \in Items : Start("ApiUtils_addToCart", itemId)
    /\ http' = [NoHttp EXCEPT !.after = http.path = "/add-to-cart" /\ http.ok]
    /\ UNCHANGED << appVars, conns, baseUrl, client, runnerVars, stepErrors >>

\* A hook calls ApiUtils.initialize(baseUrl).
ApiInitialize ==
    /\ phase = "idle" /\ stack = <<>>
    /\ baseUrl /\ client = "none"
    /\ client' = "fresh"
    /\ UNCHANGED << appVars, conns, baseUrl, stack, ret, runnerVars, stepErrors, http,
                    lastRet, clk, chosen >>

\* A step reads the cart badge of the home page it opens.
InvokeBadge ==
    /\ phase = "idle" /\ stack = <<>>
    /\ \E op \in {"HomePage_open", "HomePage_getCartCount"} : Start(op, Undefined)
    /\ UNCHANGED << appVars, conns, baseUrl, client, runnerVars, stepErrors, http >>

\* The values a step expects of a count or of a quantity.
ExpectedValues == (0 - 1)..MaxQty

\* A step calls an assert method of a page object, on the page the
\* browser is on.
InvokeAssert ==
    /\ phase = "idle" /\ stack = <<>>
    /\ \/ \E op \in {"HomePage_open", "CartPage_open", "CartPage_assertCartEmpty"} :
            Start(op, Undefined)
       \/ \E expected \in ExpectedValues : Start("HomePage_assertCartCount", expected)
       \/ \E productName \in ProductNames, expected \in ExpectedValues :
            Start("CartPage_assertProductQuantity", <<productName, expected>>)
    /\ UNCHANGED << appVars, conns, baseUrl, client, runnerVars, stepErrors, http >>

ActionOps == {"HomePage_open", "HomePage_goToCart", "CartPage_open",
              "CartPage_clickCheckout", "CartPage_clickBackToShop"}

\* A step opens the home page or adds an item of it to the cart.
InvokeHome ==
    /\ phase = "idle" /\ stack = <<>>
    /\ \/ Start("HomePage_open", Undefined)
       \/ \E itemId \in Items : Start("HomePage_addToCartByItemId", itemId)
    /\ UNCHANGED << appVars, conns, baseUrl, client, runnerVars, stepErrors, http >>

\* A step calls an action of a page object: a navigation, a click, a
\* selection.
InvokeAction ==
    /\ phase = "idle" /\ stack = <<>>
    /\ \/ \E op \in ActionOps : Start(op, Undefined)
       \/ Start("HomePage_addToCartByItemId", 1)
       \/ \E productName \in ProductNames, newQuantity \in 0..MaxQty :
            Start("CartPage_setProductQuantity", <<productName, newQuantity>>)
    /\ UNCHANGED << appVars, conns, baseUrl, client, runnerVars, stepErrors, http >>

PageOps == {"HomePage_open", "HomePage_getCartCount", "CartPage_open",
            "CartPage_getCartItems", "CartPage_getTotalPrice", "CheckoutPage_open"}

\* A step calls a public method of a page object.
InvokePage ==
    /\ phase = "idle" /\ stack = <<>>
    /\ \/ \E op \in PageOps : Start(op, Undefined)
       \/ \E productName \in ProductNames :
            Start("CartPage_getProductQuantity", productName)
       \/ \E productName \in ProductNames, newQuantity \in 0..MaxQty :
            Start("CartPage_setProductQuantity", <<productName, newQuantity>>)
    /\ UNCHANGED << appVars, conns, baseUrl, client, runnerVars, stepErrors, http >>

\* A step calls a method of DbUtils.
InvokeDb ==
    /\ phase = "idle" /\ stack = <<>>
    /\ \/ \E op \in {"DbUtils_fetchAll", "DbUtils_executeQuery", "DbUtils_resetTable",
                     "DbUtils_getCartTotal"} : Start(op, Undefined)
       \/ \E op \in {"DbUtils_fetchOne", "DbUtils_getCartQuantity"}, itemId \in Items :
            Start(op, itemId)
    /\ UNCHANGED << appVars, conns, baseUrl, client, runnerVars, stepErrors, http >>

\* ------------------------------------------- the application under test

\* The page finishes rendering.
EnvRender ==
    /\ url # "blank" /\ ~rendered
    /\ rendered' = TRUE
    /\ UNCHANGED << url, notif, pendingAdds, pendingNav, pendingSet, cart, conns,
                    baseUrl, client, stack, ret, runnerVars, stepErrors, http,
                    lastRet, clk, chosen >>

\* The clicked link takes the browser to its page.
EnvNavigate ==
    /\ pendingNav # "none"
    /\ url' = pendingNav
    /\ rendered' = FALSE
    /\ notif' = "none"
    /\ pendingNav' = "none"
    /\ UNCHANGED << pendingAdds, pendingSet, cart, conns, baseUrl, client, stack,
                    ret, runnerVars, stepErrors, http, lastRet, clk, chosen >>

\* The server adds a clicked item to the cart; the home page shows the
\* notification.
EnvProcessAdd ==
    /\ \E i \in Items :
         /\ pendingAdds[i] > 0
         /\ pendingAdds' = [pendingAdds EXCEPT ![i] = @ - 1]
         /\ cart' = [cart EXCEPT ![i] = Min(@ + 1, MaxQty)]
    /\ notif' = IF url = "home" THEN "shown" ELSE notif
    /\ UNCHANGED << url, rendered, pendingNav, pendingSet, conns, baseUrl, client,
                    stack, ret, runnerVars, stepErrors, http, lastRet, clk, chosen >>

\* The notification hides itself.
EnvNotifHide ==
    /\ notif = "shown"
    /\ notif' = "none"
    /\ UNCHANGED << url, rendered, pendingAdds, pendingNav, pendingSet, cart, conns,
                    baseUrl, client, stack, ret, runnerVars, stepErrors, http,
                    lastRet, clk, chosen >>

\* The server applies the selected quantity; the cart page shows the new
\* total, at once or after rendering again.
EnvApplySet ==
    /\ pendingSet # <<>>
    /\ cart' = [cart EXCEPT ![pendingSet[1]] = pendingSet[2]]
    /\ pendingSet' = <<>>
    /\ \E again \in BOOLEAN : rendered' = (rendered /\ ~again)
    /\ UNCHANGED << url, notif, pendingAdds, pendingNav, conns, baseUrl, client,
                    stack, ret, runnerVars, stepErrors, http, lastRet, clk, chosen >>

\* ------------------------------------------------------ the specification

Init ==
    /\ url = "blank"
    /\ rendered = FALSE
    /\ notif = "none"
    /\ pendingAdds = [i \in Items |-> 0]
    /\ pendingNav = "none"
    /\ pendingSet = <<>>
    /\ cart \in [Items -> 0..MaxQty]
    /\ conns = 0
    /\ baseUrl \in BOOLEAN
    /\ client = "none"
    /\ stack = <<>>
    /\ ret = NoRet
    /\ phase = "idle"
    /\ scenario = <<"AddToCart", 0>>
    /\ results = <<>>
    /\ executed = {}
    /\ stepErrors = {}
    /\ http = NoHttp
    /\ lastRet = NoLast
    /\ clk = NoClicks
    /\ chosen = NoChoice

\* The scenarios of the feature files, run one after another.
Next ==
    \/ RunScenario \/ BeforeHook \/ StepBegin \/ StepEnd \/ StepSkip \/ AfterHook
    \/ ScenarioEnd \/ InvokeApi
    \/ BrowserUrl \/ WaitPoll \/ WaitTimeout \/ ElementClick \/ ElementGetText
    \/ ElementsQuery \/ CallFunction \/ CallReturned \/ ForLoop \/ ForNext
    \/ ExpectStep \/ ApiCheckClient \/ ApiPost \/ ApiCheckStatus
    \/ DbGetConnection \/ DbRunQuery \/ DbCloseConn \/ DbSettle
    \/ BrowserExecute \/ AllureReport \/ ViolationsBranch
    \/ EnvRender \/ EnvNavigate \/ EnvProcessAdd \/ EnvNotifHide

Spec == Init /\ [][Next]_vars

\* Two scenario flows interleaved in one process: the scenarios of this
\* flow, and the Before hook of the other.
NextFlows == Next \/ OtherFlowBeforeHook

SpecFlows == Init /\ [][NextFlows]_vars

\* The page objects, called one method after another.
NextPages ==
    \/ InvokePage
    \/ BrowserUrl \/ WaitPoll \/ WaitTimeout \/ ElementGetText \/ ElementsQuery
    \/ SelectOption \/ CallFunction \/ CallReturned \/ PredicateCall
    \/ PredicateReturned \/ PredicateTimeout
    \/ EnvRender \/ EnvApplySet

SpecPages == Init /\ [][NextPages]_vars

\* DbUtils, called one method after another.
NextDb ==
    \/ InvokeDb
    \/ CallFunction \/ CallReturned
    \/ DbGetConnection \/ DbRunQuery \/ DbCloseConn \/ DbSettle

SpecDb == Init /\ [][NextDb]_vars

\* ApiUtils, and the cart badge of the home page.
NextApi ==
    \/ ApiInitialize \/ InvokeApi \/ InvokeBadge
    \/ ApiCheckClient \/ ApiPost \/ ApiCheckStatus
    \/ BrowserUrl \/ WaitPoll \/ WaitTimeout \/ ElementGetText
    \/ EnvRender

SpecApi == Init /\ [][NextApi]_vars

\* The actions of the page objects, called one after another.
NextActions ==
    \/ InvokeAction
    \/ BrowserUrl \/ WaitPoll \/ WaitTimeout \/ ElementClick \/ ElementGetText
    \/ SelectOption \/ CallFunction \/ CallReturned \/ PredicateCall
    \/ PredicateReturned \/ PredicateTimeout
    \/ EnvRender \/ EnvNavigate \/ EnvApplySet

\* The cart holds one Koala.
InitActions == Init /\ baseUrl /\ cart = [i \in Items |-> IF i = 1 THEN 1 ELSE 0]

SpecActions == InitActions /\ [][NextActions]_vars

\* The home page: opening it and adding its items to the cart.
NextHome ==
    \/ InvokeHome
    \/ BrowserUrl \/ WaitPoll \/ WaitTimeout \/ ElementClick
    \/ EnvRender \/ EnvProcessAdd \/ EnvNotifHide

SpecHome == Init /\ [][NextHome]_vars

\* The badge of the home page, read whatever text it holds.
NextBadge ==
    \/ InvokeBadge
    \/ BrowserUrl \/ WaitPoll \/ WaitTimeout \/ ElementGetText \/ ElementGetBadgeText
    \/ EnvRender

SpecBadge == Init /\ [][NextBadge]_vars

\* The assert methods of the page objects, on a page of any cart.
NextAssert ==
    \/ InvokeAssert
    \/ BrowserUrl \/ WaitPoll \/ WaitTimeout \/ ElementGetText \/ ElementsQuery
    \/ CallFunction \/ CallReturned \/ ThrowIf
    \/ EnvRender

SpecAssert == Init /\ [][NextAssert]_vars

\* ------------------------------------------------------------- the claims

\* C1: the steps of a scenario run one at a time in feature order (a step's
\* definition is invoked only after every earlier step has passed); once a
\* step's definition throws, that step is recorded failed, no later step
\* is executed and every later step is recorded skipped.
C1_StepsStopAtFirstFailure ==
    /\ \A i \in executed :
         \A j \in 1..(i - 1) :
            j \in executed /\ j <= Len(results) /\ results[j] = "passed"
    /\ \A i \in stepErrors :
         /\ i <= Len(results) => results[i] = "failed"
         /\ \A j \in (i + 1)..Len(StepsNow) :
              /\ j \notin executed
              /\ j <= Len(results) => results[j] = "skipped"

\* A scenario whose step i > 1 threw: it is failed and the last is skipped.
C1_Witness ==
    \E i \in stepErrors :
        /\ i > 1
        /\ Len(results) = Len(StepsNow)
        /\ results[i] = "failed"
        /\ results[Len(results)] = "skipped"

\* C2: in the step 'I add {int} items to the cart' every click after the
\* first is issued only after the notification of the click before it has
\* been observed displayed and then observed not displayed, and no click is
\* issued while the notification of an earlier click is shown or due.
C2_ClicksWaitForNotification ==
    (stack # <<>> /\ stack[1].op = "Step_IAddItemsToTheCart")
        => clk.ok /\ ~clk.overlap

\* The functions documented to return a sentinel value instead of throwing.
SentinelReads ==
    {"HomePage_getCartCount", "CartPage_getCartItems", "CartPage_getProductQuantity",
     "CartPage_getTotalPrice"}

\* C3: a page action or assertion whose wait timed out ends by throwing,
\* unless it is one of the sentinel reads.
C3_TimedOutWaitThrows ==
    (lastRet.to /\ lastRet.op \notin SentinelReads) => lastRet.status = "throw"

\* C4: when setProductQuantity returns normally it has selected exactly
\* once and the total displayed before the selection has changed: the
\* heading does not display that same total when the call returns.
C4_ReturnsAfterPriceChanged ==
    (lastRet.op = "CartPage_setProductQuantity" /\ lastRet.status = "ok")
        => /\ chosen.n = 1
           /\ lastRet.dom.total # chosen.before

\* C5: getCartCount and getTotalPrice never throw; when the text of the
\* badge / the heading was not read (it is not displayed, or the wait for
\* it timed out) they return 0 / -1, and otherwise the number the text
\* they read shows.
C5_ReadsReturnSentinelOrParsedValue ==
    /\ lastRet.op = "HomePage_getCartCount"
         => /\ lastRet.status = "ok"
            /\ lastRet.dom.count = Hidden => lastRet.v = Undefined
            /\ lastRet.value = IF lastRet.v = Undefined THEN JsInt(0)
                               ELSE lastRet.dom.count
    /\ lastRet.op = "CartPage_getTotalPrice"
         => /\ lastRet.status = "ok"
            /\ lastRet.dom.total = Hidden => lastRet.v = Undefined
            /\ lastRet.value = IF lastRet.v = Undefined THEN JsInt(-1)
                               ELSE lastRet.dom.total

\* getTotalPrice returned -1 after its wait for the heading timed out.
C5_Witness ==
    /\ lastRet.op = "CartPage_getTotalPrice"
    /\ lastRet.to
    /\ lastRet.status = "ok"
    /\ lastRet.value = JsInt(-1)

\* C6: getProductQuantity does not throw; it returns -1 for a product name
\* no row of the table has, and the selected quantity of the row that has it.
C6_QuantityOfRowOrMinusOne ==
    lastRet.op = "CartPage_getProductQuantity"
        => LET rows == {i \in Items : /\ lastRet.dom.qty[i] # Hidden
                                      /\ ItemName(i) = lastRet.arg}
           IN  /\ lastRet.status = "ok"
               /\ IF rows = {} THEN lastRet.value = JsInt(-1)
                  ELSE \E i \in rows : lastRet.value = lastRet.dom.qty[i]

\* getProductQuantity('Koala') returned 2, the quantity its row shows.
C6_Witness ==
    /\ lastRet.op = "CartPage_getProductQuantity"
    /\ lastRet.arg = Koala
    /\ lastRet.dom.qty[1] = JsInt(2)
    /\ lastRet.value = JsInt(2)

\* C7: resetCart / addToCart return normally only for a 2xx or 3xx status;
\* in a scenario, a response to /reset-cart of another status makes the
\* step 'the cart is empty' throw and fail, and no step after it is executed.
C7_RejectedStatusFailsTheStep ==
    /\ (lastRet.op \in {"ApiUtils_resetCart", "ApiUtils_addToCart"}
            /\ lastRet.status = "ok")
         => http.status \in 200..399
    /\ (phase \in {"steps", "after"} /\ http.path # "none"
            /\ http.status \notin 200..399)
         => /\ executed = {1}
            /\ (stack = <<>> /\ results = <<>>) => ret.status = "throw"
            /\ Len(results) >= 1 => results[1] = "failed"
            /\ \A j \in 2..Len(results) : results[j] = "skipped"

\* /reset-cart answered 404: step 1 failed and no other step was executed.
C7_Witness ==
    /\ phase = "steps"
    /\ http.path = "/reset-cart"
    /\ http.status = 404
    /\ Len(results) = Len(StepsNow)
    /\ results[1] = "failed"
    /\ executed = {1}

DbOps == {"DbUtils_fetchOne", "DbUtils_fetchAll", "DbUtils_executeQuery"}

\* C8: a call of fetchOne, fetchAll or executeQuery has at most one
\* connection open, has closed it when its promise is about to settle, on
\* the success and on the query-error path, and leaves none open.
C8_ConnectionClosedBeforeSettling ==
    /\ conns \in {0, 1}
    /\ stack = <<>> => conns = 0
    /\ At("settle") => conns = 0 /\ <<"close", "db">> \in Top.seen
    /\ (lastRet.op \in DbOps /\ (lastRet.status = "ok" \/ lastRet.v = SqlError))
         => /\ conns = 0
            /\ {<<"open", "db">>, <<"close", "db">>} \subseteq lastRet.seen

\* fetchOne rejected with the error of its query, its connection closed.
C8_Witness ==
    /\ lastRet.op = "DbUtils_fetchOne"
    /\ lastRet.status = "throw"
    /\ lastRet.v = SqlError
    /\ <<"close", "db">> \in lastRet.seen
    /\ conns = 0

\* The locator open() waits for.
ReadinessLocator(op) ==
    CASE op = "HomePage_open" -> "ul > li"
      [] op = "CartPage_open" -> "table"
      [] op = "CheckoutPage_open" -> ".checkout-container"

\* C9: open() of HomePage, CartPage and CheckoutPage returns normally only
\* after its readiness locator has been observed displayed.
C9_OpenReturnsAfterReady ==
    (lastRet.op \in {"HomePage_open", "CartPage_open", "CheckoutPage_open"}
        /\ lastRet.status = "ok")
        => <<"displayed", ReadinessLocator(lastRet.op)>> \in lastRet.seen

\* C10: assertSuccessNotificationHidden returns normally only after it has
\* observed the notification not displayed.
C10_ReturnsAfterObservedHidden ==
    (lastRet.op = "HomePage_assertSuccessNotificationHidden"
        /\ lastRet.status = "ok")
        => <<"hidden", ".notification">> \in lastRet.seen

\* C11: a call of addToCartByItemId(itemId) that returns has clicked the
\* submit button of the form of itemId and no other, exactly once, after
\* having observed that button displayed, and it returns without waiting for
\* the notification or for the cart to change; a call whose button is not
\* displayed within 5000 ms throws and has clicked nothing.
C11_ClicksTheItemsButtonOnceWhenDisplayed ==
    lastRet.op = "HomePage_addToCartByItemId" =>
        /\ lastRet.status = "ok" =>
              /\ lastRet.acts = 1 /\ clk.n = 1
              /\ clk.items = {lastRet.arg}
              /\ clk.ready
              /\ lastRet.seen = {<<"displayed", "addToCartButton">>}
        /\ lastRet.to =>
              /\ lastRet.status = "throw"
              /\ lastRet.t = 5000 /\ lastRet.el >= 5000
              /\ lastRet.acts = 0 /\ clk.n = 0
        /\ lastRet.status = "throw" => lastRet.acts = 0 /\ clk.n = 0

\* addToCartByItemId(2) has returned while its request is still due and no
\* notification has been shown.
C11_Witness ==
    /\ lastRet.op = "HomePage_addToCartByItemId"
    /\ lastRet.arg = 2 /\ lastRet.status = "ok"
    /\ pendingAdds[2] > 0 /\ notif # "shown"

\* C12: in a run of the scenario of AddToCart.feature, the step 'I should see
\* 1 item in the cart list' passes only when it observed one row in the cart
\* table and the step 'the database should show 1 item in the cart' only
\* when the quantity it read for item 1 is 1; a run whose six steps passed
\* ended on that reading of 1.
C12_PassingRunObservedOneItem ==
    (scenario[1] = "AddToCart" /\ phase = "steps") =>
        /\ (/\ lastRet.op \in {"Step_IShouldSeeItemInTheCartList",
                               "Step_theDatabaseShouldShowItemInTheCart"}
            /\ lastRet.status = "ok") => lastRet.v = JsInt(1)
        /\ (Len(results) = 6 /\ AllPassed) =>
              /\ lastRet.op = "Step_theDatabaseShouldShowItemInTheCart"
              /\ lastRet.status = "ok"
              /\ lastRet.v = JsInt(1)

\* The six steps of the scenario have passed and the cart holds one Koala.
C12_Witness ==
    /\ scenario[1] = "AddToCart" /\ phase = "steps"
    /\ Len(results) = 6 /\ AllPassed
    /\ cart = [i \in Items |-> IF i = 1 THEN 1 ELSE 0]

\* C13: the step 'I add N items to the cart', begun with an empty cart, no
\* request due and no notification shown, when it passes has issued exactly
\* N clicks, all on item 1, and leaves the badge showing N with nothing due,
\* which is what a following 'the cart count should be N' reads; when it
\* fails after i completed iterations it has issued i or i + 1 clicks.
C13_PassedStepAddedAllItems ==
    (/\ scenario[1] = "AddItems" /\ phase = "steps"
     /\ lastRet.op = "Step_IAddItemsToTheCart" /\ ret.status # "none"
     /\ clk.clean) =>
        /\ lastRet.status = "ok" =>
              /\ clk.n = lastRet.arg /\ clk.items \subseteq {1}
              /\ pendingAdds = EmptyCart
              /\ lastRet.dom.count = JsInt(lastRet.arg)
        /\ lastRet.status = "throw" =>
              /\ clk.n \in {lastRet.i, lastRet.i + 1}
              /\ clk.n <= lastRet.arg

\* C14: once resetCart() has succeeded, and no request has been made since,
\* getCartCount() returns 0, whether or not an addToCart that succeeded
\* came before the reset and whatever the cart held.
C14_CountIsZeroAfterReset ==
    (/\ lastRet.op = "HomePage_getCartCount"
     /\ http.path = "/reset-cart" /\ http.ok) =>
        /\ lastRet.status = "ok"
        /\ lastRet.value = JsInt(0)
        /\ lastRet.dom.count \in {JsInt(0), Hidden}

\* addToCart succeeded, then resetCart, and getCartCount has read the text
\* "0" of the badge displayed on the home page.
C14_Witness ==
    /\ lastRet.op = "HomePage_getCartCount"
    /\ http.path = "/reset-cart" /\ http.ok /\ http.after
    /\ url = "home" /\ rendered
    /\ lastRet.v = <<"0">>
    /\ lastRet.value = JsInt(0)

SingleInteractionOps ==
    {"HomePage_goToCart", "HomePage_addToCartByItemId", "CartPage_clickCheckout",
     "CartPage_clickBackToShop", "CartPage_setProductQuantity"}

\* C16: one call of goToCart, addToCartByItemId, clickCheckout,
\* clickBackToShop or setProductQuantity issues its click or selection at
\* most once, also when one of its waits times out.
C16_InteractionIssuedAtMostOnce ==
    /\ \A j \in 1..Len(stack) :
          stack[j].op \in SingleInteractionOps => stack[j].acts <= 1
    /\ lastRet.op \in SingleInteractionOps =>
          /\ lastRet.acts <= 1
          /\ clk.n <= 1 /\ chosen.n <= 1
          /\ lastRet.status = "ok" => lastRet.acts = 1

\* clickCheckout has clicked the button once and its wait for the URL of
\* the checkout page timed out.
C16_Witness ==
    /\ lastRet.op = "CartPage_clickCheckout"
    /\ lastRet.to /\ lastRet.status = "throw"
    /\ lastRet.acts = 1
    /\ url = "cart"

\* The reporter failed in the accessibility step that completed last.
ReportingFailed ==
    \E what \in {"attachment", "argument"} : <<"failed", what>> \in lastRet.seen

\* C17: when allureReporter.addAttachment or addArgument fails in the step
\* 'the page should be accessible', the step does not fail.
C17_ReportingFailureDoesNotFailTheStep ==
    (lastRet.op = "Step_thePageShouldBeAccessible" /\ ReportingFailed)
        => lastRet.status = "ok"

\* C18: a scan with violations, reported without failure, passes the step
\* 'the page should be accessible' when the check is configured with the
\* soft policy and fails it when it is configured with the strict one.
C18_ViolationsFailUnderStrictPolicyOnly ==
    (/\ lastRet.op = "Step_thePageShouldBeAccessible"
     /\ phase = "steps"
     /\ lastRet.v[2] > 0
     /\ <<"reported", "argument">> \in lastRet.seen) =>
        (lastRet.status = "ok" <=> scenario[1] = "AccessibilitySoft")

\* C19: while the steps of a scenario run, ApiUtils.client is the one the
\* Before hook of that scenario created from the base URL, so the check
\* 'if (!this.client)' of resetCart never throws in a step; without a base
\* URL the hook fails, no step definition is invoked and every step is
\* recorded skipped.
C19_StepsUseTheClientOfTheirHook ==
    /\ phase = "steps" => baseUrl /\ client = "fresh"
    /\ (phase = "steps" /\ At("checkClient")) => client # "none"
    /\ (~baseUrl /\ phase \in {"before", "steps", "after"}) =>
          /\ executed = {} /\ stack = <<>>
          /\ phase = "after" =>
                /\ Len(results) = Len(StepsNow)
                /\ \A i \in 1..Len(results) : results[i] = "skipped"

\* The step 'the cart is empty' is about to check the client its hook made.
C19_Witness ==
    /\ phase = "steps"
    /\ At("checkClient")
    /\ stack[1].op = "Step_theCartIsEmpty"
    /\ client = "fresh"

\* C20: no step line of a scenario is undefined or ambiguous: each one
\* matches exactly one registered step definition.
C20_EveryStepLineMatchesOneDefinition ==
    /\ \A i \in 1..Len(results) : results[i] \notin {"undefined", "ambiguous"}
    /\ phase \in {"before", "steps", "after"} =>
          \A i \in 1..Len(StepsNow) :
              StepsNow[i].def \notin {"undefined", "ambiguous"}

\* C21: with a second scenario flow interleaved, every request a step of
\* this flow sends goes through the client that the Before hook of its own
\* scenario created.
C21_RequestsUseOwnClient ==
    (phase = "steps" /\ At("post")) => client = "fresh"

\* C22: getCartQuantity(itemId) returns the quantity the cart holds of the
\* item, 0 when it holds none; getCartTotal returns the sum of the
\* quantities, 0 for an empty cart; when resetTable('cart') has completed
\* the cart is empty, so that both then return 0.
C22_QuantitiesReadAsStoredAndZeroAfterReset ==
    /\ (lastRet.op = "DbUtils_getCartQuantity" /\ lastRet.status = "ok")
          => lastRet.value = JsInt(cart[lastRet.arg])
    /\ (lastRet.op = "DbUtils_getCartTotal" /\ lastRet.status = "ok")
          => lastRet.value = JsInt(CartCount)
    /\ (lastRet.op = "DbUtils_resetTable" /\ lastRet.status = "ok")
          => cart = EmptyCart
    /\ (lastRet.op \in {"DbUtils_getCartQuantity", "DbUtils_getCartTotal"}
          /\ lastRet.status = "ok" /\ cart = EmptyCart)
          => lastRet.value = JsInt(0)

\* getCartTotal has returned 0 for a cart without rows.
C22_Witness ==
    /\ lastRet.op = "DbUtils_getCartTotal"
    /\ lastRet.status = "ok"
    /\ cart = EmptyCart
    /\ lastRet.v = Undefined
    /\ lastRet.value = JsInt(0)

\* C23: setProductQuantity does not return normally while the price it
\* read last equals the price it read before the selection; when its wait
\* for a different price times out, after 5000 ms, it throws, having
\* selected once, and the row still shows the quantity selected.
C23_UnchangedPriceEndsInError ==
    lastRet.op = "CartPage_setProductQuantity" =>
        /\ lastRet.status = "ok" => StrictNotEqual(lastRet.r, lastRet.old)
        /\ lastRet.to =>
              /\ lastRet.status = "throw"
              /\ lastRet.t = 5000 /\ lastRet.el = 5000
              /\ lastRet.acts = 1 /\ chosen.n = 1
              /\ ShownQty(chosen.item) = chosen.q

\* The total stayed 10.99 for the whole wait: setProductQuantity has thrown
\* and the selection of another quantity is still there, not yet applied.
C23_Witness ==
    /\ lastRet.op = "CartPage_setProductQuantity"
    /\ lastRet.to /\ lastRet.status = "throw"
    /\ lastRet.old = Normalise(1099, 2) /\ lastRet.r = lastRet.old
    /\ pendingSet = <<chosen.item, chosen.q>>
    /\ cart[chosen.item] # chosen.q

\* C24: getCartCount returns an integer, whatever text the badge holds.
C24_CartCountIsAnInteger ==
    lastRet.op = "HomePage_getCartCount" => IsInteger(lastRet.value)

\* C25: a call of resetCart or addToCart that got a response returns it
\* exactly when isSuccessStatus accepts the status, and throws otherwise.
C25_CallsAcceptWhatIsSuccessStatusAccepts ==
    (/\ lastRet.op \in {"ApiUtils_resetCart", "ApiUtils_addToCart"}
     /\ phase = "idle"
     /\ http.path # "none") =>
        (lastRet.status = "ok" <=> ApiUtils_isSuccessStatus(http.status))

\* C26: an assertion passes only on what was read: assertCartCount(expected)
\* returns normally only when the badge is displayed with the expected
\* count, assertProductQuantity(name, expected) only when a row of that
\* product is displayed with the expected quantity selected.
C26_AssertionsPassOnlyOnWhatWasRead ==
    /\ (lastRet.op = "HomePage_assertCartCount" /\ lastRet.status = "ok")
          => lastRet.dom.count = JsInt(lastRet.arg)
    /\ (lastRet.op = "CartPage_assertProductQuantity" /\ lastRet.status = "ok")
          => \E i \in Items :
                /\ Contains(ItemName(i), lastRet.arg[1])
                /\ lastRet.dom.qty[i] = JsInt(lastRet.arg[2])

\* C27: when setProductQuantity returns normally, the price it read before
\* the selection and the price whose read ended the wait were both read
\* from the heading: neither is the -1 of a failed read.
C27_ReturnsOnTwoPricesRead ==
    (lastRet.op = "CartPage_setProductQuantity" /\ lastRet.status = "ok")
        => /\ lastRet.old # JsInt(0 - 1)
           /\ lastRet.r # JsInt(0 - 1)

\* C28: the step "I should see N item in the cart list" does not fail when
\* the browser is on the cart page, which has not rendered its rows yet,
\* and the cart, with nothing of it pending, has exactly the N rows the
\* page is going to render.
C28_CartListStepPassesWhateverTheTiming ==
    (/\ lastRet.op = "Step_IShouldSeeItemInTheCartList"
     /\ ret.status # "none"
     /\ url = "cart" /\ ~rendered /\ pendingNav = "none"
     /\ pendingAdds = EmptyCart /\ pendingSet = <<>>
     /\ Cardinality(RowItems) = lastRet.arg)
        => lastRet.status = "ok"

====
